---- MODULE Spec2Model ----
(***************************************************************************)
(* Equivalence_Checker: the equivalence-checking step of the pipeline.     *)
(*                                                                         *)
(* equivalence::check (src/src/equivalence/mod.rs) is a public function of *)
(* (AnalysisConfig, SymbolicSummaries); main (src/src/main.rs) calls it    *)
(* once, prints the verdict and generates the report.  The model draws the *)
(* configuration and both programs' path summaries from bounded sets, runs *)
(* check on them and follows main to its end.                              *)
(*                                                                         *)
(* Path conditions and return expressions are strings in the source        *)
(* ("x > 10", "x + y").  Here a clause is the record [var, op, k] and a    *)
(* return expression the record [var, plus], over the one input x.         *)
(***************************************************************************)
EXTENDS Integers, Sequences, FiniteSets

\* ----------------------------------------------------------------- bounds
\* Largest value of the input x in a declared bound box.
MaxX == 10
\* The constant the path-condition clauses compare x with.
Threshold == 5
\* Most path summaries per program.
MaxPaths == 2
\* Largest --max-paths value drawn.
MaxBudget == 2
\* The non-zero --timeout value drawn.
MaxTimeout == 1

\* Option::None
None == [tag |-> "None"]

\* ------------------------------------------------------------------ types
\* Verdict: Equivalent | NotEquivalent | Unknown
Verdict == {"Equivalent", "NotEquivalent", "Unknown"}

\* ProgramKind: C | Rust
ProgramKind == {"C", "Rust"}

\* Result<T>: Ok(value)
Ok(v) == [tag |-> "Ok", value |-> v]

\* Result<T>: Err(error)
Err(e) == [tag |-> "Err", error |-> e]

\* InputBound { name, min, max }
InputBound(n, lo, hi) == [name |-> n, min |-> lo, max |-> hi]

\* AnalysisConfig as main builds it from the command line.
AnalysisConfig(b, mp, t) ==
    [c_file |-> "a.c", rust_file |-> "a.rs", function_name |-> "f",
     bounds |-> b, max_paths |-> mp, timeout |-> t]

\* The clauses a path condition is a conjunction of.
Clause(o, c) == [var |-> "x", op |-> o, k |-> c]

\* The path conditions drawn: x >= 0, x > Threshold, x <= Threshold.
PathConds ==
    << <<Clause(">=", 0)>>, <<Clause(">", Threshold)>>, <<Clause("<=", Threshold)>> >>

\* The return expressions drawn: x and x + 1.
ReturnExprs == << [var |-> "x", plus |-> 0], [var |-> "x", plus |-> 1] >>

\* PathSummary { id, program, path_condition, return_expr, stdout_log,
\*               stderr_log, global_writes, file_ops }
PathSummary(kind, n, pcond, ret) ==
    [id |-> <<kind, n>>, program |-> kind, path_condition |-> pcond,
     return_expr |-> ret, stdout_log |-> << >>, stderr_log |-> << >>,
     global_writes |-> << >>, file_ops |-> << >>]

\* The summaries one program's symbolic execution may hand over: every
\* combination of a drawn path condition and a drawn return expression.
NumBodies == Len(PathConds) * Len(ReturnExprs)

BodyCond(b) == PathConds[((b - 1) \div Len(ReturnExprs)) + 1]

BodyRet(b) == ReturnExprs[((b - 1) % Len(ReturnExprs)) + 1]

\* Index lists of length 0..MaxPaths, strictly increasing.
Picks ==
    UNION { { s \in [1..n -> 1..NumBodies] : \A i \in 1..n : \A j \in 1..n : i < j => s[i] < s[j] }
            : n \in 0..MaxPaths }

\* Vec<PathSummary> of one program, ids numbered in order ("C-1", "C-2").
SummariesOf(kind, picks) ==
    [i \in 1..Len(picks) |-> PathSummary(kind, i, BodyCond(picks[i]), BodyRet(picks[i]))]

\* SymbolicSummaries { c_summaries, rust_summaries }
SymbolicSummaries(cs, rs) == [c_summaries |-> cs, rust_summaries |-> rs]

VARIABLES config, summaries, solver_limited, pc, outcome, queries, printed, report

\* The command line and the file system main starts from, and the results
\* of parse_bounds and of steps 1 to 4.
VARIABLES cli, fs, parsed, validation, ir_files, normalized, instrumented

\* What main holds before step 5.
front == <<cli, fs, parsed, validation, ir_files, normalized, instrumented>>

vars == <<config, summaries, solver_limited, pc, outcome, queries, printed, report,
          cli, fs, parsed, validation, ir_files, normalized, instrumented>>

\* ------------------------------------------------ meaning of a path summary
\* One clause of a path condition at the input value x.
Holds(cl, x) ==
    CASE cl.op = ">=" -> x >= cl.k
      [] cl.op = ">"  -> x > cl.k
      [] cl.op = "<=" -> x <= cl.k

\* A path condition is the conjunction of its clauses.
Satisfies(pcond, x) == \A i \in 1..Len(pcond) : Holds(pcond[i], x)

\* The rectangular input domain the bounds declare (one input, x).
Box(cfg) == { x \in 0..MaxX : \A i \in 1..Len(cfg.bounds) :
                 cfg.bounds[i].min <= x /\ x <= cfg.bounds[i].max }

\* A return expression evaluated at x.
Eval(e, x) == x + e.plus

\* BehaviorSnapshot { return_value, stdout, stderr, globals }: what the path
\* does at the input x.
BehaviorSnapshot(s, x) ==
    [return_value |-> Eval(s.return_expr, x), stdout |-> s.stdout_log,
     stderr |-> s.stderr_log, globals |-> s.global_writes]

\* Difference { kind, c_value, rust_value }: one entry per channel whose
\* values differ, in the order ReturnValue, Stdout, Stderr, GlobalVariable.
Differences(b1, b2) ==
    (IF b1.return_value # b2.return_value
       THEN <<[kind |-> "ReturnValue", c_value |-> b1.return_value, rust_value |-> b2.return_value]>>
       ELSE << >>)
    \o (IF b1.stdout # b2.stdout
       THEN <<[kind |-> "Stdout", c_value |-> b1.stdout, rust_value |-> b2.stdout]>>
       ELSE << >>)
    \o (IF b1.stderr # b2.stderr
       THEN <<[kind |-> "Stderr", c_value |-> b1.stderr, rust_value |-> b2.stderr]>>
       ELSE << >>)
    \o (IF b1.globals # b2.globals
       THEN <<[kind |-> "GlobalVariable", c_value |-> b1.globals, rust_value |-> b2.globals]>>
       ELSE << >>)

\* Counterexample { inputs, c_behavior, rust_behavior, differences } of the
\* region (c, r) at the input x.
Counterexample(c, r, x) ==
    [inputs |-> <<[name |-> "x", value |-> x]>>,
     c_behavior |-> BehaviorSnapshot(c, x),
     rust_behavior |-> BehaviorSnapshot(r, x),
     differences |-> Differences(BehaviorSnapshot(c, x), BehaviorSnapshot(r, x))]

\* The inputs of the box on which both paths of the pair p run.
RegionInputs(cfg, sums, p) ==
    { x \in Box(cfg) : /\ Satisfies(sums.c_summaries[p[1]].path_condition, x)
                       /\ Satisfies(sums.rust_summaries[p[2]].path_condition, x) }

\* The inputs of a region on which the two paths behave differently: the
\* models of the divergence query.
DivergentInputs(cfg, sums, p) ==
    { x \in RegionInputs(cfg, sums, p) :
        BehaviorSnapshot(sums.c_summaries[p[1]], x) # BehaviorSnapshot(sums.rust_summaries[p[2]], x) }

\* Every (C path, Rust path) pair, C path first.
AllPairs(sums) ==
    [n \in 1..(Len(sums.c_summaries) * Len(sums.rust_summaries)) |->
        << ((n - 1) \div Len(sums.rust_summaries)) + 1,
           ((n - 1) % Len(sums.rust_summaries)) + 1 >>]

\* The regions in scan order: the pairs whose joint condition is satisfiable
\* inside the bounds.
Regions(cfg, sums) ==
    LET NonEmpty(p) == RegionInputs(cfg, sums, p) # {}
    IN  SelectSeq(AllPairs(sums), NonEmpty)

\* The least element of a non-empty set of integers.
Least(S) == CHOOSE x \in S : \A y \in S : x <= y

\* SolverOutcome of the n-th region query of a run, on the region p:
\* Unknown once the path budget is used up, when no time is allowed, or when
\* the solver cannot decide; otherwise the answer to the divergence query.
SolverOutcome(cfg, sums, limited, n, p) ==
    IF n > cfg.max_paths THEN [tag |-> "Unknown", reason |-> "PathBudgetExceeded"]
    ELSE IF cfg.timeout = 0 THEN [tag |-> "Unknown", reason |-> "Timeout"]
    ELSE IF limited THEN [tag |-> "Unknown", reason |-> "SolverLimitation"]
    ELSE LET d == DivergentInputs(cfg, sums, p)
         IN  IF d # {} THEN [tag |-> "Satisfiable", model |-> Least(d)]
             ELSE [tag |-> "Unsatisfiable"]

\* Coverage: the path conditions of one program span the whole bound box.
CoverageComplete(cfg, paths) ==
    \A x \in Box(cfg) : \E i \in 1..Len(paths) : Satisfies(paths[i].path_condition, x)

\* The pairs of paths of one program that hold together somewhere in the box.
Overlaps(cfg, paths) ==
    { p \in (1..Len(paths)) \X (1..Len(paths)) :
        /\ p[1] < p[2]
        /\ \E x \in Box(cfg) : /\ Satisfies(paths[p[1]].path_condition, x)
                              /\ Satisfies(paths[p[2]].path_condition, x) }

\* ----------------------------------------------------------- the program
\* EquivalenceResult { verdict, paths_compared, counterexample, time_taken }
EquivalenceResult(v, n, ce, t) ==
    [verdict |-> v, paths_compared |-> n, counterexample |-> ce, time_taken |-> t]

\* The outcomes of all region queries of a run, in scan order.
Outcomes(cfg, sums, limited) ==
    LET r == Regions(cfg, sums)
    IN  [n \in 1..Len(r) |-> SolverOutcome(cfg, sums, limited, n, r[n])]

\* check that reads an Unknown outcome as Unsatisfiable.
check_unknown_as_unsat(cfg, sums) ==
    LET o == Outcomes(cfg, sums, solver_limited)
    IN  Ok(EquivalenceResult(
            IF \E n \in 1..Len(o) : o[n].tag = "Satisfiable" THEN "NotEquivalent"
            ELSE IF CoverageComplete(cfg, sums.c_summaries) /\ CoverageComplete(cfg, sums.rust_summaries)
                 THEN "Equivalent" ELSE "Unknown",
            0, None, 0))

\* check that never looks at the coverage of the bound box.
check_ignores_coverage(cfg, sums) ==
    LET o == Outcomes(cfg, sums, solver_limited)
    IN  Ok(EquivalenceResult(
            IF \E n \in 1..Len(o) : o[n].tag = "Satisfiable" THEN "NotEquivalent"
            ELSE IF \E n \in 1..Len(o) : o[n].tag = "Unknown" THEN "Unknown"
            ELSE "Equivalent",
            0, None, 0))

\* check that counts every path pair before looking at the path budget.
check_counts_pairs(cfg, sums) ==
    Ok(EquivalenceResult("Unknown", Len(AllPairs(sums)), None, 0))

\* check that reports the regions it was given rather than those it resolved.
check_counts_regions(cfg, sums) ==
    Ok(EquivalenceResult("Unknown", Len(Regions(cfg, sums)), None, 0))

\* check that attaches the counterexample it found to an Unknown result.
check_keeps_counterexample(cfg, sums) ==
    LET r == Regions(cfg, sums)
        d == { n \in 1..Len(r) : DivergentInputs(cfg, sums, r[n]) # {} }
    IN  Ok(EquivalenceResult("Unknown", 0,
            IF d = {} THEN None
            ELSE Counterexample(sums.c_summaries[r[Least(d)][1]],
                                sums.rust_summaries[r[Least(d)][2]],
                                Least(DivergentInputs(cfg, sums, r[Least(d)]))),
            0))

\* equivalence::check: for every configuration and every pair of summary
\* collections, Ok of the result Unknown, 0 paths compared, no
\* counterexample, time 0.0.
check(cfg, sums) == Ok(EquivalenceResult("Unknown", 0, None, 0))

\* The region queries dispatched with no look at the path or time budget.
check_queries_every_region(cfg, sums) == Regions(cfg, sums)

\* The region queries equivalence::check hands to a solver, in order: its
\* body calls nothing, so none.
check_solver_queries(cfg, sums) == << >>

\* reporter::generate: the path of the report.
generate(cfg, result) == Ok("output/report.html")

\* main, "Print verdict": the line printed for the verdict and, for
\* NotEquivalent with a counterexample, its inputs.
print_verdict(result) ==
    CASE result.verdict = "Equivalent" ->
            [line |-> "Programs are SEMANTICALLY EQUIVALENT", inputs |-> None]
      [] result.verdict = "NotEquivalent" ->
            [line |-> "Programs are NOT EQUIVALENT",
             inputs |-> IF result.counterexample # None
                        THEN result.counterexample.inputs ELSE None]
      [] result.verdict = "Unknown" ->
            [line |-> "Could not determine equivalence (timeout/unknown)", inputs |-> None]

\* Whether a result carries the reason `why` for its verdict.  The fields of
\* EquivalenceResult are verdict, paths_compared, counterexample, time_taken,
\* and Verdict::Unknown has no payload.
HasReason(result, why) == "reason" \in DOMAIN result /\ result.reason = why

\* ------------------------------------------------------ main before step 6
\* A string is the sequence of its characters.
DigitChars == <<"0", "1", "2", "3", "4", "5", "6", "7", "8", "9">>

\* The value of a decimal digit.
DigitValue(ch) == (CHOOSE i \in 1..Len(DigitChars) : DigitChars[i] = ch) - 1

\* The decimal text of a natural number.
RECURSIVE ToDigits(_)
ToDigits(n) ==
    IF n < Len(DigitChars) THEN <<DigitChars[n + 1]>>
    ELSE ToDigits(n \div Len(DigitChars)) \o <<DigitChars[(n % Len(DigitChars)) + 1]>>

\* The value of a non-empty run of decimal digits.
RECURSIVE DigitsValue(_)
DigitsValue(ds) ==
    IF Len(ds) = 0 THEN 0
    ELSE DigitsValue(SubSeq(ds, 1, Len(ds) - 1)) * Len(DigitChars) + DigitValue(ds[Len(ds)])

\* str::split(sep): the pieces between separators; a string without the
\* separator, the empty one included, is one piece.
RECURSIVE Split(_, _)
Split(s, sep) ==
    IF \A i \in 1..Len(s) : s[i] # sep THEN <<s>>
    ELSE LET i == CHOOSE k \in 1..Len(s) : s[k] = sep /\ \A j \in 1..(k - 1) : s[j] # sep
         IN  <<SubSeq(s, 1, i - 1)>> \o Split(SubSeq(s, i + 1, Len(s)), sep)

\* str::parse::<i64>: an optional sign, then one or more digits; anything
\* else is an error.  The texts drawn stay far inside the i64 range.
parse_i64(f) ==
    LET signed == Len(f) > 0 /\ f[1] \in {"+", "-"}
        body   == IF signed THEN Tail(f) ELSE f
    IN  IF Len(body) = 0 \/ \E i \in 1..Len(body) : \A d \in 1..Len(DigitChars) : body[i] # DigitChars[d]
          THEN Err([kind |-> "ParseIntError", text |-> f])
        ELSE Ok(IF signed /\ f[1] = "-" THEN 0 - DigitsValue(body) ELSE DigitsValue(body))

\* The loop of parse_bounds over the remaining parts, bounds pushed so far
\* in acc: a part without exactly three fields, or a min or max that does
\* not parse, ends it with that error.
RECURSIVE parse_parts(_, _)
parse_parts(pieces, acc) ==
    IF Len(pieces) = 0 THEN Ok(acc)
    ELSE LET parts == Split(Head(pieces), ":")
         IN  IF Len(parts) # 3
               THEN Err([kind |-> "InvalidBoundsFormat", text |-> Head(pieces)])
             ELSE LET lo == parse_i64(parts[2])
                      hi == parse_i64(parts[3])
                  IN  IF lo.tag = "Err" THEN lo
                      ELSE IF hi.tag = "Err" THEN hi
                      ELSE parse_parts(Tail(pieces),
                                       Append(acc, InputBound(parts[1], lo.value, hi.value)))

\* parse_bounds: "x:0:100,y:0:100" into a Vec<InputBound>.
parse_bounds(bounds_str) == parse_parts(Split(bounds_str, ","), << >>)

\* The text name:min:max of one bound, min and max not negative.
BoundText(name, lo, hi) == name \o <<":">> \o ToDigits(lo) \o <<":">> \o ToDigits(hi)

\* Cli: the parsed command line.
Cli(b, mp, t) ==
    [c_file |-> "a.c", rust_file |-> "a.rs", function |-> "f",
     bounds |-> b, max_paths |-> mp, timeout |-> t]

\* FunctionSignature { name, params, return_type }
FunctionSignature(n, ps, rt) == [name |-> n, params |-> ps, return_type |-> rt]

\* ValidationResult { success, c_signature, rust_signature, errors }
ValidationResult(ok, c, r, errs) ==
    [success |-> ok, c_signature |-> c, rust_signature |-> r, errors |-> errs]

\* validate that never compares the two parameter counts.
validate_without_count_check(cfg, f) ==
    IF ~f.c_exists
      THEN Ok(ValidationResult(FALSE, None, None, <<<<"C file not found", cfg.c_file>>>>))
    ELSE IF ~f.rust_exists
      THEN Ok(ValidationResult(FALSE, None, None, <<<<"Rust file not found", cfg.rust_file>>>>))
    ELSE IF ~f.c_syntax_ok \/ ~f.rust_syntax_ok
      THEN Ok(ValidationResult(FALSE, None, None, <<<<"syntax error">>>>))
    ELSE LET errors ==
                (IF f.c_function = None
                   THEN <<<<"C function not found", cfg.function_name>>>> ELSE << >>)
             \o (IF f.rust_function = None
                   THEN <<<<"Rust function not found", cfg.function_name>>>> ELSE << >>)
         IN  Ok(ValidationResult(Len(errors) = 0, f.c_function, f.rust_function, errors))

\* validator::validate on the file system f.  f says whether each file
\* exists, whether clang and rustc accept it, and what find_c_function and
\* find_rust_function return for the function (None for their Err).
validate(cfg, f) ==
    IF ~f.c_exists
      THEN Ok(ValidationResult(FALSE, None, None, <<<<"C file not found", cfg.c_file>>>>))
    ELSE IF ~f.rust_exists
      THEN Ok(ValidationResult(FALSE, None, None, <<<<"Rust file not found", cfg.rust_file>>>>))
    ELSE LET syntax ==
                (IF ~f.c_syntax_ok THEN <<<<"C syntax error">>>> ELSE << >>)
             \o (IF ~f.rust_syntax_ok THEN <<<<"Rust syntax error">>>> ELSE << >>)
         IN  IF Len(syntax) # 0
               THEN Ok(ValidationResult(FALSE, None, None, syntax))
             ELSE LET c_sig    == f.c_function
                      rust_sig == f.rust_function
                      found ==
                           (IF c_sig = None
                              THEN <<<<"C function not found", cfg.function_name>>>> ELSE << >>)
                        \o (IF rust_sig = None
                              THEN <<<<"Rust function not found", cfg.function_name>>>> ELSE << >>)
                      errors ==
                           found
                        \o (IF /\ c_sig # None
                               /\ rust_sig # None
                               /\ Len(c_sig.params) # Len(rust_sig.params)
                              THEN <<<<"Parameter count mismatch",
                                       Len(c_sig.params), Len(rust_sig.params)>>>>
                              ELSE << >>)
                  IN  Ok(ValidationResult(Len(errors) = 0, c_sig, rust_sig, errors))

\* main that goes on to step 2 whatever validation.success says.
validation_ignored(v) == v.tag = "Ok"

\* main, step 1: validate(&config)? returned Ok and validation.success
\* holds; otherwise main returns Err("Validation failed").
validation_passed(v) == v.tag = "Ok" /\ v.value.success

\* compiler::compile: the two IR paths, named after the function.
compile(cfg) ==
    Ok([c_ir_path    |-> <<"/tmp/", cfg.function_name, ".bc">>,
        rust_ir_path |-> <<"/tmp/", cfg.function_name, "_rust.bc">>])

\* normalizer::normalize: the IR paths, unchanged.
normalize(cfg, ir) ==
    Ok([c_normalized_path |-> ir.c_ir_path, rust_normalized_path |-> ir.rust_ir_path])

\* instrumentor::instrument: the normalized paths, unchanged.
instrument(cfg, norm) ==
    Ok([c_instrumented_path    |-> norm.c_normalized_path,
        rust_instrumented_path |-> norm.rust_normalized_path])

\* symbolic::execute: no summaries for either program.
execute(cfg, files) == Ok(SymbolicSummaries(<< >>, << >>))

\* The configurations main builds: --bounds x:0:Threshold or x:0:MaxX,
\* --max-paths 0..MaxBudget, --timeout 0 or MaxTimeout.
Configs ==
    { AnalysisConfig(parse_bounds(BoundText(<<"x">>, 0, hi)).value, mp, t) :
        hi \in {Threshold, MaxX}, mp \in 0..MaxBudget, t \in {0, MaxTimeout} }

\* The default command line: --bounds x:0:100.
DefaultBounds == BoundText(<<"x">>, 0, 100)

\* The default command line: --max-paths 100.
DefaultMaxPaths == 100

\* The default command line: --timeout 60.
DefaultTimeout == 60

\* Most parameters of a function signature drawn.
MaxParams == 2

\* Most comma-separated parts of a --bounds text drawn.
MaxBounds == 2

\* What find_c_function / find_rust_function may return: Err (None) or a
\* signature with 0..MaxParams parameters of the type ty.
Signatures(ty, rt) ==
    {None} \cup { FunctionSignature("f", [i \in 1..n |-> ty], rt) : n \in 0..MaxParams }

\* The file systems main may run on.
FileSystems ==
    [c_exists : BOOLEAN, rust_exists : BOOLEAN,
     c_syntax_ok : BOOLEAN, rust_syntax_ok : BOOLEAN,
     c_function : Signatures("int", "int"), rust_function : Signatures("i32", "i32")]

\* A file system on which validation passes: both files exist and parse,
\* and both hold the function with one parameter.
GoodFs ==
    [c_exists |-> TRUE, rust_exists |-> TRUE, c_syntax_ok |-> TRUE, rust_syntax_ok |-> TRUE,
     c_function |-> FunctionSignature("f", <<"int">>, "int"),
     rust_function |-> FunctionSignature("f", <<"i32">>, "i32")]

\* The pieces joined by the separator sep.
RECURSIVE Join(_, _)
Join(pieces, sep) ==
    IF Len(pieces) = 0 THEN << >>
    ELSE IF Len(pieces) = 1 THEN pieces[1]
    ELSE pieces[1] \o <<sep>> \o Join(Tail(pieces), sep)

\* The parts of a --bounds text drawn: name:min:max and name:min, the name x
\* or y, min and max among 0, 1, -1 and the letter z.
PartTexts ==
    LET names == { <<"x">>, <<"y">> }
        nums  == { <<"0">>, <<"1">>, <<"-", "1">>, <<"z">> }
    IN  { Join(<<n, a, b>>, ":") : n \in names, a \in nums, b \in nums }
        \cup { Join(<<n, a>>, ":") : n \in names, a \in nums }

\* The --bounds texts drawn: 0..MaxBounds parts joined by commas.
BoundsTexts ==
    { Join(ps, ",") : ps \in UNION { [1..n -> PartTexts] : n \in 0..MaxBounds } }

\* The state when main reaches step 6: a configuration, the summaries of
\* both programs, and whether the solver is able to decide its queries;
\* steps 1 to 4 have passed on a file system that validates.
Init ==
    /\ config \in Configs
    /\ cli = Cli(BoundText(config.bounds[1].name, config.bounds[1].min, config.bounds[1].max),
                 config.max_paths, config.timeout)
    /\ fs = GoodFs
    /\ parsed = parse_bounds(cli.bounds)
    /\ validation = validate(config, fs)
    /\ ir_files = compile(config)
    /\ normalized = normalize(config, ir_files.value)
    /\ instrumented = instrument(config, normalized.value)
    /\ summaries \in { SymbolicSummaries(SummariesOf("C", a), SummariesOf("Rust", b)) :
                         a \in Picks, b \in Picks }
    /\ solver_limited \in BOOLEAN
    /\ pc = "step6"
    /\ outcome = None
    /\ queries = << >>
    /\ printed = None
    /\ report = None

\* main, step 6: let result = equivalence::check(&config, &summaries)?
Step6_CheckEquivalence ==
    /\ pc = "step6"
    /\ outcome' = check(config, summaries)
    /\ queries' = queries \o check_solver_queries(config, summaries)
    /\ pc' = IF outcome'.tag = "Ok" THEN "print_verdict" ELSE "failed"
    /\ UNCHANGED <<config, summaries, solver_limited, printed, report>>
    /\ UNCHANGED front

\* main, match result.verdict { ... }
PrintVerdict ==
    /\ pc = "print_verdict"
    /\ printed' = print_verdict(outcome.value)
    /\ pc' = "step7"
    /\ UNCHANGED <<config, summaries, solver_limited, outcome, queries, report>>
    /\ UNCHANGED front

\* main, step 7: let report_path = reporter::generate(&config, &result)?
Step7_GenerateReport ==
    /\ pc = "step7"
    /\ report' = generate(config, outcome.value)
    /\ pc' = IF report'.tag = "Ok" THEN "done" ELSE "failed"
    /\ UNCHANGED <<config, summaries, solver_limited, outcome, queries, printed>>
    /\ UNCHANGED front

Next == Step6_CheckEquivalence \/ PrintVerdict \/ Step7_GenerateReport

Spec == Init /\ [][Next]_vars

\* --------------------------------------------------- main from its start
\* What steps 6 and 7 write.
back == <<outcome, queries, printed, report>>

\* main, before the pipeline: let bounds = parse_bounds(&cli.bounds)?, then
\* the AnalysisConfig built from the command line.
ParseBounds ==
    /\ pc = "parse_bounds"
    /\ parsed' = parse_bounds(cli.bounds)
    /\ config' = IF parsed'.tag = "Ok"
                   THEN AnalysisConfig(parsed'.value, cli.max_paths, cli.timeout)
                   ELSE config
    /\ pc' = IF parsed'.tag = "Ok" THEN "step1" ELSE "failed"
    /\ UNCHANGED <<cli, fs, validation, ir_files, normalized, instrumented,
                   summaries, solver_limited>>
    /\ UNCHANGED back

\* main, step 1: let validation = validator::validate(&config)?, and the
\* return when validation.success is false.
Step1_Validate ==
    /\ pc = "step1"
    /\ validation' = validate(config, fs)
    /\ pc' = IF validation_passed(validation') THEN "step2" ELSE "failed"
    /\ UNCHANGED <<cli, fs, parsed, ir_files, normalized, instrumented,
                   config, summaries, solver_limited>>
    /\ UNCHANGED back

\* main, step 2: let ir_files = compiler::compile(&config)?
Step2_Compile ==
    /\ pc = "step2"
    /\ ir_files' = compile(config)
    /\ pc' = IF ir_files'.tag = "Ok" THEN "step3" ELSE "failed"
    /\ UNCHANGED <<cli, fs, parsed, validation, normalized, instrumented,
                   config, summaries, solver_limited>>
    /\ UNCHANGED back

\* main, step 3: let normalized = normalizer::normalize(&config, &ir_files)?
Step3_Normalize ==
    /\ pc = "step3"
    /\ normalized' = normalize(config, ir_files.value)
    /\ pc' = IF normalized'.tag = "Ok" THEN "step4" ELSE "failed"
    /\ UNCHANGED <<cli, fs, parsed, validation, ir_files, instrumented,
                   config, summaries, solver_limited>>
    /\ UNCHANGED back

\* main, step 4: let instrumented = instrumentor::instrument(&config, &normalized)?
Step4_Instrument ==
    /\ pc = "step4"
    /\ instrumented' = instrument(config, normalized.value)
    /\ pc' = IF instrumented'.tag = "Ok" THEN "step5" ELSE "failed"
    /\ UNCHANGED <<cli, fs, parsed, validation, ir_files, normalized,
                   config, summaries, solver_limited>>
    /\ UNCHANGED back

\* main, step 5: let summaries = symbolic::execute(&config, &instrumented)?
Step5_SymbolicExecute ==
    /\ pc = "step5"
    /\ LET r == execute(config, instrumented.value)
       IN  /\ summaries' = IF r.tag = "Ok" THEN r.value ELSE summaries
           /\ pc' = IF r.tag = "Ok" THEN "step6" ELSE "failed"
    /\ UNCHANGED <<config, solver_limited>>
    /\ UNCHANGED front
    /\ UNCHANGED back

\* main from the command line to its return.
MainNext ==
    \/ ParseBounds
    \/ Step1_Validate
    \/ Step2_Compile
    \/ Step3_Normalize
    \/ Step4_Instrument
    \/ Step5_SymbolicExecute
    \/ Step6_CheckEquivalence
    \/ PrintVerdict
    \/ Step7_GenerateReport

\* main at its start on the command line c and the file system f.
Started(c, f) ==
    /\ cli = c
    /\ fs = f
    /\ pc = "parse_bounds"
    /\ config = None
    /\ parsed = None
    /\ validation = None
    /\ ir_files = None
    /\ normalized = None
    /\ instrumented = None
    /\ summaries = None
    /\ solver_limited = FALSE
    /\ outcome = None
    /\ queries = << >>
    /\ printed = None
    /\ report = None

\* main started with the default --bounds or one that lacks its max, on
\* every file system.
MainInit ==
    \E b \in {DefaultBounds, <<"x", ":", "0">>} : \E f \in FileSystems :
        Started(Cli(b, DefaultMaxPaths, DefaultTimeout), f)

\* main on every file system.
MainSpec == MainInit /\ [][MainNext]_vars

\* main started with every --bounds text drawn, on a file system that
\* validates.
ParseInit ==
    \E b \in BoundsTexts : Started(Cli(b, DefaultMaxPaths, DefaultTimeout), GoodFs)

\* main on every --bounds text.
ParseSpec == ParseInit /\ [][MainNext]_vars

\* ------------------------------------------------------------ the claims
\* check has returned.
Returned == outcome # None

\* check has returned Ok(result).
ReturnedOk == outcome # None /\ outcome.tag = "Ok"

\* The solver outcomes of this run's regions, in scan order.
RunOutcomes == Outcomes(config, summaries, solver_limited)

\* No region of this run resolves Satisfiable.
NoDivergence ==
    LET o == RunOutcomes IN \A n \in 1..Len(o) : o[n].tag # "Satisfiable"

\* Every region of this run resolves Unsatisfiable.
AllUnsatisfiable ==
    LET o == RunOutcomes IN \A n \in 1..Len(o) : o[n].tag = "Unsatisfiable"

\* Both programs' path conditions cover the declared bound box.
CoverageBoth ==
    /\ CoverageComplete(config, summaries.c_summaries)
    /\ CoverageComplete(config, summaries.rust_summaries)

\* No two paths of one program hold together inside the bounds.
NoOverlap ==
    /\ Overlaps(config, summaries.c_summaries) = {}
    /\ Overlaps(config, summaries.rust_summaries) = {}

\* Some region resolves Satisfiable and every region scanned before it
\* resolved Unsatisfiable.
FirstDivergence ==
    LET o == RunOutcomes
    IN  \E n \in 1..Len(o) :
            /\ o[n].tag = "Satisfiable"
            /\ \A m \in 1..(n - 1) : o[m].tag = "Unsatisfiable"

\* Some region resolves Unknown and no region scanned before it diverged.
UnknownBeforeDivergence ==
    LET o == RunOutcomes
    IN  \E n \in 1..Len(o) :
            /\ o[n].tag = "Unknown"
            /\ \A m \in 1..(n - 1) : o[m].tag # "Satisfiable"

\* The value a behavior snapshot holds on the channel of a Difference.
Channel(b, kind) ==
    CASE kind = "ReturnValue" -> b.return_value
      [] kind = "Stdout" -> b.stdout
      [] kind = "Stderr" -> b.stderr
      [] kind = "GlobalVariable" -> b.globals

\* C1: when every compared region resolves Unsatisfiable and both programs'
\* path conditions cover the bound box, check returns verdict Equivalent.
C1_AllUnsatCoveredIsEquivalent ==
    (/\ Returned
     /\ NoOverlap
     /\ CoverageBoth
     /\ AllUnsatisfiable)
    => (outcome.tag = "Ok" /\ outcome.value.verdict = "Equivalent")

\* C2: when a region resolves Satisfiable with a genuine difference, check
\* returns verdict NotEquivalent with a counterexample whose two behavior
\* snapshots differ on a channel listed in its differences.
C2_DivergenceIsNotEquivalent ==
    (Returned /\ NoOverlap /\ FirstDivergence)
    => /\ outcome.tag = "Ok"
       /\ outcome.value.verdict = "NotEquivalent"
       /\ outcome.value.counterexample # None
       /\ \E i \in 1..Len(outcome.value.counterexample.differences) :
            LET ce == outcome.value.counterexample
            IN  Channel(ce.c_behavior, ce.differences[i].kind)
                  # Channel(ce.rust_behavior, ce.differences[i].kind)

\* C3: when some region resolves Unknown and no divergence was found before
\* it, the verdict is Unknown, and main prints it as "could not determine".
C3_UnknownStaysUnknown ==
    (Returned /\ UnknownBeforeDivergence)
    => /\ outcome.tag = "Ok"
       /\ outcome.value.verdict = "Unknown"
       /\ printed # None =>
            printed.line = "Could not determine equivalence (timeout/unknown)"

\* C3 witness: the run ended, its first region resolved Unsatisfiable, a
\* later one Unknown, and the Unknown line was printed.
C3_Witness ==
    /\ pc = "done"
    /\ UnknownBeforeDivergence
    /\ Len(RunOutcomes) > 1
    /\ RunOutcomes[1].tag = "Unsatisfiable"
    /\ outcome.value.verdict = "Unknown"
    /\ printed.line = "Could not determine equivalence (timeout/unknown)"

\* C4: when one program's path conditions leave part of the bound box
\* uncovered and no region diverges, the verdict is Unknown, not Equivalent,
\* also when every region is Unsatisfiable.
C4_IncompleteCoverageIsUnknown ==
    (/\ Returned
     /\ ~CoverageBoth
     /\ NoDivergence)
    => (outcome.tag = "Ok" /\ outcome.value.verdict = "Unknown")

\* C4 witness: the run ended with bounds x:0:MaxX, the C program covering
\* only x <= Threshold, every region Unsatisfiable, and verdict Unknown.
C4_Witness ==
    /\ pc = "done"
    /\ config.bounds[1].max = MaxX
    /\ ~CoverageComplete(config, summaries.c_summaries)
    /\ CoverageComplete(config, summaries.rust_summaries)
    /\ Len(RunOutcomes) > 0
    /\ AllUnsatisfiable
    /\ outcome.value.verdict = "Unknown"

\* C5 as stated: with max_paths = 0, check returns verdict Unknown with
\* reason PathBudgetExceeded and paths_compared = 0.
C5_ZeroBudgetUnknownWithReason ==
    (Returned /\ config.max_paths = 0)
    => /\ outcome.tag = "Ok"
       /\ outcome.value.verdict = "Unknown"
       /\ HasReason(outcome.value, "PathBudgetExceeded")
       /\ outcome.value.paths_compared = 0

\* C5 amended: with max_paths = 0, for any path summaries, check returns
\* verdict Unknown and paths_compared = 0; the result carries no reason.
C5_ZeroBudgetUnknown ==
    (Returned /\ config.max_paths = 0)
    => /\ outcome.tag = "Ok"
       /\ outcome.value.verdict = "Unknown"
       /\ outcome.value.paths_compared = 0
       /\ \A why \in {"Timeout", "PathBudgetExceeded", "SolverLimitation"} :
            ~HasReason(outcome.value, why)

\* C5 witness: the run ended with max_paths = 0 and path pairs on hand,
\* verdict Unknown and no path compared.
C5_Witness ==
    /\ pc = "done"
    /\ config.max_paths = 0
    /\ Len(AllPairs(summaries)) > 0
    /\ outcome.value.verdict = "Unknown"
    /\ outcome.value.paths_compared = 0

\* The aggregator state a run is in: Scanning until check returns, then
\* the terminal state of the verdict.
AggregatorState ==
    IF ~ReturnedOk THEN "Scanning"
    ELSE CASE outcome.value.verdict = "NotEquivalent" -> "Diverged"
           [] outcome.value.verdict = "Equivalent" -> "Proved"
           [] outcome.value.verdict = "Unknown" -> "Indeterminate"

\* In a result, paths_compared is the number of region queries made, and no
\* region was queried twice.
C6_Tally ==
    ReturnedOk =>
        /\ outcome.value.paths_compared = Len(queries)
        /\ \A i \in 1..Len(queries) : \A j \in 1..Len(queries) :
              queries[i] = queries[j] => i = j

\* From a terminal state no step scans a region or changes the result.
C6_TerminalStep ==
    AggregatorState \in {"Diverged", "Proved", "Indeterminate"}
    => /\ queries' = queries
       /\ outcome' = outcome
       /\ AggregatorState' = AggregatorState

BudgetExhausted == config.max_paths - Len(queries) <= 0 \/ config.timeout = 0

\* C8: once the path budget or the time budget is exhausted, no step of the
\* run dispatches a new solver call.
C8_NoDispatchAfterExhaustion == [][BudgetExhausted => queries' = queries]_vars

\* C8 witness: the run ended with a budget exhausted from the start and
\* regions on hand that were never sent to a solver.
C8_Witness ==
    /\ pc = "done"
    /\ BudgetExhausted
    /\ Len(Regions(config, summaries)) > 0
    /\ queries = << >>

\* C9: when two path conditions of one program hold together inside the
\* bounds, check returns no verdict but fails with a PathOverlapError that
\* names the two colliding path ids.
C9_OverlapIsError ==
    (Returned /\ ~NoOverlap)
    => /\ outcome.tag = "Err"
       /\ outcome.error.kind = "PathOverlapError"
       /\ \/ \E p \in Overlaps(config, summaries.c_summaries) :
               outcome.error.ids = <<summaries.c_summaries[p[1]].id,
                                     summaries.c_summaries[p[2]].id>>
          \/ \E p \in Overlaps(config, summaries.rust_summaries) :
               outcome.error.ids = <<summaries.rust_summaries[p[1]].id,
                                     summaries.rust_summaries[p[2]].id>>

\* C10: a result whose verdict is Equivalent or Unknown has no
\* counterexample, and main prints counterexample inputs only under
\* NotEquivalent.
C10_CounterexampleOnlyIfNotEquivalent ==
    ReturnedOk =>
        /\ outcome.value.verdict \in {"Equivalent", "Unknown"}
             => outcome.value.counterexample = None
        /\ (printed # None /\ printed.inputs # None)
             => outcome.value.verdict = "NotEquivalent"

\* C10 witness: the run ended with verdict Unknown and no counterexample
\* although a region holds an input on which the programs differ.
C10_Witness ==
    /\ pc = "done"
    /\ \E n \in 1..Len(Regions(config, summaries)) :
          DivergentInputs(config, summaries, Regions(config, summaries)[n]) # {}
    /\ outcome.value.verdict = "Unknown"
    /\ outcome.value.counterexample = None
    /\ printed.inputs = None

\* C11: every InputBound set that parse_bounds returns Ok and main places
\* in AnalysisConfig.bounds has min <= max in each bound and pairwise
\* distinct names.
C11_BoundsWellFormed ==
    (parsed # None /\ parsed.tag = "Ok" /\ config # None)
    => /\ config.bounds = parsed.value
       /\ \A i \in 1..Len(config.bounds) : config.bounds[i].min <= config.bounds[i].max
       /\ \A i \in 1..Len(config.bounds) : \A j \in 1..Len(config.bounds) :
             config.bounds[i].name = config.bounds[j].name => i = j

\* What the seven stages have returned so far, in the order of main:
\* validate, compile, normalize, instrument, symbolic execute, equivalence
\* check, report; None for a stage that has not run.
StageResults ==
    << validation, ir_files, normalized, instrumented,
       IF summaries = None THEN None ELSE Ok(summaries), outcome, report >>

\* The i-th stage has returned Ok, and for validation with success true.
StageReturnedOk(i) ==
    /\ StageResults[i] # None
    /\ StageResults[i].tag = "Ok"
    /\ i = 1 => StageResults[i].value.success

\* C12: a stage has run only if every earlier stage of the order validate,
\* compile, normalize, instrument, symbolic execute, equivalence check,
\* report has returned Ok; after a validation with success false, or an Err
\* of any stage, no later stage has run and no report exists.
C12_StagesInOrder ==
    \A j \in 1..Len(StageResults) :
        StageResults[j] # None => \A i \in 1..(j - 1) : StageReturnedOk(i)

\* C12 witness: main has returned after a validation with success false,
\* with no stage after it run and no report.
C12_Witness ==
    /\ pc = "failed"
    /\ validation # None
    /\ ~validation.value.success
    /\ \A j \in 2..Len(StageResults) : StageResults[j] = None

\* C13: validate returns success true exactly when its errors list is
\* empty, and with success true both signatures are present and have the
\* same number of parameters.
C13_SuccessIffNoErrors ==
    validation # None =>
        /\ validation.tag = "Ok"
        /\ validation.value.success <=> Len(validation.value.errors) = 0
        /\ validation.value.success =>
             /\ validation.value.c_signature # None
             /\ validation.value.rust_signature # None
             /\ Len(validation.value.c_signature.params)
                  = Len(validation.value.rust_signature.params)

\* C13 witness: validate has returned success true for two signatures with
\* at least one parameter each.
C13_Witness ==
    /\ validation # None
    /\ validation.value.success
    /\ Len(validation.value.errors) = 0
    /\ Len(validation.value.c_signature.params) > 0
    /\ Len(validation.value.rust_signature.params) > 0

====
